---- MODULE Spec2Model ----
(***************************************************************************)
(* Apna-RAG cloud frontend.                                                *)
(*                                                                         *)
(*   Spec      the two route handlers: POST /api/chat (app/api/chat/       *)
(*             route.ts) and POST /api/ingest, each serving one request    *)
(*             after another, interleaved with each other.                 *)
(*   PageSpec  the ChatPage component (app/page.tsx): its React state,     *)
(*             the two fetches it can have in flight and the pending       *)
(*             auto-dismiss timers.  FairPageSpec adds that a fetch        *)
(*             promise settles and a due timer fires.                      *)
(*                                                                         *)
(* Text is a sequence of one-character strings, so that trimming, joining  *)
(* and "length > 0" are computed as the code computes them.                *)
(***************************************************************************)
EXTENDS Naturals, Sequences, FiniteSets

(* ---------------- bounds ---------------- *)
\* passages in one /search response
MaxK == 2
\* messages shown by the page
MaxMsgs == 4
\* refresh requests started by the page
MaxRefresh == 3

(* ---------------- program constants ---------------- *)
SEPARATOR == <<"\n", "\n", "-", "-", "-", "\n", "\n">>
MessageRequired == "Message is required"
KeyNotConfigured == "Gemini API key not configured. Set GEMINI_API_KEY in environment."
GenericError == "An error occurred while processing your request."
NoContextMarker == <<"No context available from local knowledge base.">>
FallbackAnswer == <<"I couldn't generate a response.">>
TunnelDown == "Failed to connect to local backend. Is the tunnel running?"
ConnectFailed == "Failed to connect to backend."
ServerUnreachable == <<"Failed to connect to the server.">>

(* ---------------- inputs ---------------- *)
SeqsUpTo(S, n) == UNION {[1..k -> S] : k \in 0..n}

\* the text of a question: empty, whitespace only, and two real questions
Questions == {<<>>, <<" ">>, <<"q">>, <<" ", "q">>}

\* a request body: unparseable, or a JSON object with or without "message"
Bodies ==
    {[json |-> FALSE, hasMessage |-> FALSE, message |-> <<>>],
     [json |-> TRUE, hasMessage |-> FALSE, message |-> <<>>]}
    \cup {[json |-> TRUE, hasMessage |-> TRUE, message |-> m] : m \in Questions}

PassageTexts == {<<>>, <<"a">>}
SourceIds == {"policy.pdf", "notes.md"}
SearchResult == [text : PassageTexts, score : {9}, source : SourceIds]

\* what the fetch of TUNNEL_URL/search can come to: no connection, a non-2xx
\* status (whose body may still carry results), a body that does not parse
\* into results, or a 2xx with up to MaxK results
SearchOutcomes ==
    {[kind |-> k, results |-> <<>>] : k \in {"unreachable", "status", "malformed"}}
    \cup {[kind |-> "status", results |-> <<p>>] : p \in SearchResult}
    \cup {[kind |-> "ok", results |-> r] : r \in SeqsUpTo(SearchResult, MaxK)}

\* what generateContent can come to: a throw, or a response whose text may be empty
LlmOutcomes ==
    {[kind |-> "error", text |-> <<>>]}
    \cup {[kind |-> "ok", text |-> t] : t \in {<<>>, <<"A">>}}

NoSearch == [kind |-> "none", results |-> <<>>]
NoLlm == [kind |-> "none", text |-> <<>>]
NoBody == [json |-> FALSE, hasMessage |-> FALSE, message |-> <<>>]

(* ---------------- pure functions of route.ts ---------------- *)
RECURSIVE Join(_, _)
\* Array.prototype.join on the passage texts
Join(texts, sep) ==
    IF Len(texts) = 0 THEN <<>>
    ELSE IF Len(texts) = 1 THEN texts[1]
    ELSE texts[1] \o sep \o Join(Tail(texts), sep)

MapText(results) == [i \in 1..Len(results) |-> results[i].text]
RECURSIVE Dedup(_)
Dedup(q) ==
    IF Len(q) = 0 THEN <<>>
    ELSE IF \E i \in 1..(Len(q) - 1) : q[i] = q[Len(q)]
      THEN Dedup(SubSeq(q, 1, Len(q) - 1))
      ELSE Append(Dedup(SubSeq(q, 1, Len(q) - 1)), q[Len(q)])

\* the sources with repeated identifiers dropped
MapSource_Dedup(results) == Dedup([i \in 1..Len(results) |-> results[i].source])

MapSource(results) == [i \in 1..Len(results) |-> results[i].source]

\* !message
Falsy(body) == ~body.hasMessage \/ Len(body.message) = 0

\* NextResponse.json({ error }, { status })
ErrorResponse(code, msg) ==
    [status |-> code, fields |-> {"error"}, error |-> msg,
     answer |-> <<>>, sources |-> <<>>, hasContext |-> FALSE]

\* NextResponse.json({ answer, sources: ... ? sources : undefined, hasContext })
AnswerResponse(text, srcs, ctx) ==
    [status |-> 200,
     fields |-> {"answer", "hasContext"} \cup (IF Len(srcs) > 0 THEN {"sources"} ELSE {}),
     error |-> "",
     answer |-> IF Len(text) > 0 THEN text ELSE FallbackAnswer,
     sources |-> IF Len(srcs) > 0 THEN srcs ELSE <<>>,
     hasContext |-> Len(ctx) > 0]

NoResponse ==
    [status |-> 0, fields |-> {}, error |-> "",
     answer |-> <<>>, sources |-> <<>>, hasContext |-> FALSE]

\* systemPrompt + "\n\nUser Question: " + message
ComposePrompt(ctx, message) ==
    <<"system">> \o (IF Len(ctx) > 0 THEN ctx ELSE NoContextMarker)
        \o <<"question">> \o message

(* ---------------- state ---------------- *)
VARIABLES
    GEMINI_API_KEY,   \* TRUE iff the environment sets a non-empty key
    pc,               \* chat handler: "idle", "search", "llm", "done"
    request,          \* the body of the request being served
    context,          \* let context
    sources,          \* let sources
    prompt,           \* the text handed to generateContent
    response,         \* what the chat handler returned
    searchOutcome,    \* how the /search fetch of this request settled
    llmOutcome,       \* how generateContent of this request settled
    log,              \* network events of this request, in order
    ipc,              \* ingest handler: "idle", "fetch", "done"
    ingestOutcome,    \* how the /ingest fetch of this request settled
    iresponse,        \* what the ingest handler returned
    lastIngest,       \* the response the ingest handler returned last
    messages,         \* page: useState<Message[]>
    input,            \* page: useState("")
    isLoading,        \* page: useState(false)
    isIngesting,      \* page: useState(false)
    ingestStatus,     \* page: useState({ type: null, message: '' })
    statusBy,         \* page: the refresh that set ingestStatus, 0 if none
    chatFetch,        \* page: the /api/chat fetch in flight, if any
    ingestFetch,      \* page: the refresh whose /api/ingest fetch is in flight, 0 if none
    timers,           \* page: pending setTimeout callbacks, by the refresh that set them
    refreshes         \* page: refreshes started so far

chatVars == <<pc, request, context, sources, prompt, response, searchOutcome, llmOutcome, log>>
ingestVars == <<ipc, ingestOutcome, iresponse, lastIngest>>
routeVars == <<GEMINI_API_KEY, chatVars, ingestVars>>
pageChatVars == <<messages, input, isLoading, chatFetch>>
pageRefreshVars == <<isIngesting, ingestStatus, statusBy, ingestFetch, timers, refreshes>>
pageVars == <<pageChatVars, pageRefreshVars>>
vars == <<routeVars, pageVars>>

\* the /ingest backend's JSON bodies
IngestBodies ==
    {[status |-> "success", message |-> "Ingestion complete", hasDocs |-> TRUE, documents_processed |-> 3],
     [status |-> "error", message |-> "No documents", hasDocs |-> FALSE, documents_processed |-> 0]}

NoIngestBody == [status |-> "", message |-> "", hasDocs |-> FALSE, documents_processed |-> 0]

IngestOutcomes ==
    {[kind |-> k, code |-> 0, data |-> NoIngestBody] : k \in {"unreachable", "malformed"}}
    \cup {[kind |-> "status", code |-> c, data |-> NoIngestBody] : c \in {500, 404}}
    \cup {[kind |-> "ok", code |-> 200, data |-> d] : d \in IngestBodies}

NoIngest == [kind |-> "none", code |-> 0, data |-> NoIngestBody]

NoIngestResponse == [status |-> 0, body |-> NoIngestBody]

(* ---------------- POST /api/chat ---------------- *)
\* lines 21-37: parse the body, validate, start the /search fetch
ChatReceive(body) ==
    /\ pc = "idle"
    /\ request' = body
    /\ searchOutcome' = NoSearch
    /\ llmOutcome' = NoLlm
    /\ prompt' = <<>>
    /\ context' = <<>>
    /\ sources' = <<>>
    /\ IF ~body.json
         THEN /\ response' = ErrorResponse(500, GenericError)
              /\ log' = <<>>
              /\ pc' = "done"
       ELSE IF Falsy(body)
         THEN /\ response' = ErrorResponse(400, MessageRequired)
              /\ log' = <<>>
              /\ pc' = "done"
       ELSE /\ response' = NoResponse
            /\ log' = <<"search">>
            /\ pc' = "search"
    /\ UNCHANGED <<GEMINI_API_KEY, ingestVars, pageVars>>

\* lines 39-49: what the try block leaves in context and sources
\* the context when the searchResponse.ok test is left out
ContextAfter_NoOkCheck(o) ==
    IF o.kind \in {"ok", "status"} THEN Join(MapText(o.results), SEPARATOR) ELSE <<>>

ContextAfter(o) == IF o.kind = "ok" THEN Join(MapText(o.results), SEPARATOR) ELSE <<>>
SourcesAfter(o) == IF o.kind = "ok" THEN MapSource(o.results) ELSE <<>>

\* the same without the inner try/catch: a failed retrieval reaches the outer catch
SearchSettle_NoCatch(o) ==
    /\ pc = "search"
    /\ searchOutcome' = o
    /\ context' = ContextAfter(o)
    /\ sources' = SourcesAfter(o)
    /\ IF o.kind \in {"unreachable", "malformed"}
         THEN /\ response' = ErrorResponse(500, GenericError)
              /\ prompt' = <<>>
              /\ log' = Append(log, "searchSettled")
              /\ pc' = "done"
       ELSE IF ~GEMINI_API_KEY
         THEN /\ response' = ErrorResponse(500, KeyNotConfigured)
              /\ prompt' = <<>>
              /\ log' = Append(log, "searchSettled")
              /\ pc' = "done"
         ELSE /\ response' = NoResponse
              /\ prompt' = ComposePrompt(ContextAfter(o), request.message)
              /\ log' = log \o <<"searchSettled", "llm">>
              /\ pc' = "llm"
    /\ UNCHANGED <<GEMINI_API_KEY, request, llmOutcome, ingestVars, pageVars>>

\* lines 39-72: the /search fetch settles, then the key check, then generateContent starts
SearchSettle(o) ==
    /\ pc = "search"
    /\ searchOutcome' = o
    /\ context' = ContextAfter(o)
    /\ sources' = SourcesAfter(o)
    /\ IF ~GEMINI_API_KEY
         THEN /\ response' = ErrorResponse(500, KeyNotConfigured)
              /\ prompt' = <<>>
              /\ log' = Append(log, "searchSettled")
              /\ pc' = "done"
         ELSE /\ response' = NoResponse
              /\ prompt' = ComposePrompt(ContextAfter(o), request.message)
              /\ log' = log \o <<"searchSettled", "llm">>
              /\ pc' = "llm"
    /\ UNCHANGED <<GEMINI_API_KEY, request, llmOutcome, ingestVars, pageVars>>

\* the same with one retry of a failed generateContent
LlmSettle_Retry(o) ==
    /\ pc = "llm"
    /\ llmOutcome' = o
    /\ IF o.kind = "error" /\ Len(log) < 5
         THEN /\ log' = log \o <<"llmSettled", "llm">>
              /\ response' = NoResponse
              /\ pc' = "llm"
         ELSE /\ log' = Append(log, "llmSettled")
              /\ response' = IF o.kind = "ok"
                               THEN AnswerResponse(o.text, sources, context)
                               ELSE ErrorResponse(500, GenericError)
              /\ pc' = "done"
    /\ UNCHANGED <<GEMINI_API_KEY, request, context, sources, prompt, searchOutcome, ingestVars, pageVars>>

\* lines 74-87: generateContent settles; the answer, or the outer catch
LlmSettle(o) ==
    /\ pc = "llm"
    /\ llmOutcome' = o
    /\ log' = Append(log, "llmSettled")
    /\ response' = IF o.kind = "ok"
                     THEN AnswerResponse(o.text, sources, context)
                     ELSE ErrorResponse(500, GenericError)
    /\ pc' = "done"
    /\ UNCHANGED <<GEMINI_API_KEY, request, context, sources, prompt, searchOutcome, ingestVars, pageVars>>

\* the response is sent; the handler is free for the next request
ChatReturn ==
    /\ pc = "done"
    /\ pc' = "idle"
    /\ request' = NoBody
    /\ context' = <<>>
    /\ sources' = <<>>
    /\ prompt' = <<>>
    /\ response' = NoResponse
    /\ searchOutcome' = NoSearch
    /\ llmOutcome' = NoLlm
    /\ log' = <<>>
    /\ UNCHANGED <<GEMINI_API_KEY, ingestVars, pageVars>>

(* ---------------- POST /api/ingest ---------------- *)
\* lines 255-260: start the /ingest fetch
IngestReceive ==
    /\ ipc = "idle"
    /\ ipc' = "fetch"
    /\ ingestOutcome' = NoIngest
    /\ iresponse' = NoIngestResponse
    /\ UNCHANGED <<GEMINI_API_KEY, chatVars, lastIngest, pageVars>>

\* `Backend returned error: ${response.status}`
BackendError(code) ==
    IF code = 500 THEN "Backend returned error: 500" ELSE "Backend returned error: 404"

\* the response when the success body is rebuilt from status and message only
IngestResult_Rewrap(o) ==
    IF o.kind = "ok"
      THEN [status |-> 200,
            body |-> [status |-> o.data.status, message |-> o.data.message, hasDocs |-> FALSE,
                      documents_processed |-> 0]]
    ELSE IF o.kind = "status"
      THEN [status |-> o.code,
            body |-> [status |-> "error", message |-> BackendError(o.code), hasDocs |-> FALSE,
                      documents_processed |-> 0]]
    ELSE [status |-> 503,
          body |-> [status |-> "error", message |-> TunnelDown, hasDocs |-> FALSE,
                    documents_processed |-> 0]]

\* lines 262-280: the response of the ingest handler
IngestResult(o) ==
    IF o.kind = "ok" THEN [status |-> 200, body |-> o.data]
    ELSE IF o.kind = "status"
      THEN [status |-> o.code,
            body |-> [status |-> "error", message |-> BackendError(o.code), hasDocs |-> FALSE,
                      documents_processed |-> 0]]
    ELSE [status |-> 503,
          body |-> [status |-> "error", message |-> TunnelDown, hasDocs |-> FALSE,
                    documents_processed |-> 0]]

IngestSettle(o) ==
    /\ ipc = "fetch"
    /\ ingestOutcome' = o
    /\ iresponse' = IngestResult(o)
    /\ ipc' = "done"
    /\ UNCHANGED <<GEMINI_API_KEY, chatVars, lastIngest, pageVars>>

IngestReturn ==
    /\ ipc = "done"
    /\ ipc' = "idle"
    /\ ingestOutcome' = NoIngest
    /\ iresponse' = NoIngestResponse
    /\ lastIngest' = iresponse
    /\ UNCHANGED <<GEMINI_API_KEY, chatVars, pageVars>>

(* ---------------- ChatPage (page.tsx) ---------------- *)
Whitespace == {" ", "\n", "\t"}

RECURSIVE TrimStart(_)
TrimStart(t) ==
    IF Len(t) > 0 /\ Head(t) \in Whitespace THEN TrimStart(Tail(t)) ELSE t

RECURSIVE TrimEnd(_)
TrimEnd(t) ==
    IF Len(t) > 0 /\ t[Len(t)] \in Whitespace THEN TrimEnd(SubSeq(t, 1, Len(t) - 1)) ELSE t

\* String.prototype.trim
Trim(t) == TrimEnd(TrimStart(t))

\* what the user can type into the input
Inputs == {<<>>, <<" ">>, <<" ", "q", " ">>}

\* the JSON bodies /api/chat answers with
ChatData ==
    {ErrorResponse(400, MessageRequired), ErrorResponse(500, KeyNotConfigured),
     ErrorResponse(500, GenericError)}
    \cup {AnswerResponse(<<"A">>, s, s) : s \in SeqsUpTo(SourceIds, 1)}

\* the JSON bodies /api/ingest answers with
IngestData == {IngestResult(o).body : o \in IngestOutcomes}

NoFetch == [sent |-> FALSE, message |-> <<>>]
\* ingestStatus: docs says whether " (n docs processed)" follows the message
NoStatus == [type |-> "null", message |-> "", docs |-> FALSE, n |-> 0]

UserMessage(text) == [role |-> "user", content |-> text, sources |-> <<>>]
AssistantMessage(text, srcs) == [role |-> "assistant", content |-> text, sources |-> srcs]

\* line 221: onChange of the input, which is disabled while isLoading
onChange(v) ==
    /\ ~isLoading
    /\ input' = v
    /\ UNCHANGED <<routeVars, messages, isLoading, chatFetch, pageRefreshVars>>

\* lines 58-74: the submit handler up to its fetch
handleSubmit ==
    /\ IF Len(Trim(input)) = 0 \/ isLoading \/ Len(messages) + 2 > MaxMsgs
         THEN UNCHANGED <<input, messages, isLoading, chatFetch>>
         ELSE /\ input' = <<>>
              /\ messages' = Append(messages, UserMessage(Trim(input)))
              /\ isLoading' = TRUE
              /\ chatFetch' = [sent |-> TRUE, message |-> Trim(input)]
    /\ UNCHANGED <<routeVars, pageRefreshVars>>

\* lines 76-92 and 98-100: the response arrived and parsed
ChatResponse(data) ==
    /\ chatFetch.sent
    /\ messages' = Append(messages,
          IF data.error # ""
            THEN AssistantMessage(<<"Error: ", data.error>>, <<>>)
            ELSE AssistantMessage(data.answer, data.sources))
    /\ isLoading' = FALSE
    /\ chatFetch' = NoFetch
    /\ UNCHANGED <<routeVars, input, pageRefreshVars>>

\* the same without the finally block
ChatFetchFail_NoFinally ==
    /\ chatFetch.sent
    /\ messages' = Append(messages, AssistantMessage(ServerUnreachable, <<>>))
    /\ chatFetch' = NoFetch
    /\ UNCHANGED <<routeVars, input, isLoading, pageRefreshVars>>

\* lines 93-100: the fetch or response.json() threw
ChatFetchFail ==
    /\ chatFetch.sent
    /\ messages' = Append(messages, AssistantMessage(ServerUnreachable, <<>>))
    /\ isLoading' = FALSE
    /\ chatFetch' = NoFetch
    /\ UNCHANGED <<routeVars, input, pageRefreshVars>>

\* lines 27-37: the refresh handler up to its fetch
handleRefreshKnowledgeBase ==
    /\ IF isIngesting \/ refreshes >= MaxRefresh
         THEN UNCHANGED pageRefreshVars
         ELSE /\ isIngesting' = TRUE
              /\ ingestStatus' = NoStatus
              /\ statusBy' = 0
              /\ refreshes' = refreshes + 1
              /\ ingestFetch' = refreshes + 1
              /\ UNCHANGED timers
    /\ UNCHANGED <<routeVars, pageChatVars>>

\* line 54: setTimeout(..., 5000) in the finally block
ScheduleDismiss(pending, id) == Append(pending, id)

\* lines 39-48 and 51-55: the response arrived and parsed
IngestResponse(data) ==
    /\ ingestFetch > 0
    /\ ingestStatus' = IF data.status = "success"
                         THEN [type |-> "success", message |-> data.message,
                               docs |-> TRUE, n |-> data.documents_processed]
                         ELSE [type |-> "error", message |-> data.message,
                               docs |-> FALSE, n |-> 0]
    /\ statusBy' = ingestFetch
    /\ isIngesting' = FALSE
    /\ timers' = ScheduleDismiss(timers, ingestFetch)
    /\ ingestFetch' = 0
    /\ UNCHANGED <<routeVars, pageChatVars, refreshes>>

\* lines 49-55: the fetch or response.json() threw
IngestFetchFail ==
    /\ ingestFetch > 0
    /\ ingestStatus' = [type |-> "error", message |-> ConnectFailed, docs |-> FALSE, n |-> 0]
    /\ statusBy' = ingestFetch
    /\ isIngesting' = FALSE
    /\ timers' = ScheduleDismiss(timers, ingestFetch)
    /\ ingestFetch' = 0
    /\ UNCHANGED <<routeVars, pageChatVars, refreshes>>

\* line 54: the oldest pending timeout fires (all have the same delay)
TimerFire ==
    /\ Len(timers) > 0
    /\ ingestStatus' = NoStatus
    /\ statusBy' = 0
    /\ timers' = Tail(timers)
    /\ UNCHANGED <<routeVars, pageChatVars, isIngesting, ingestFetch, refreshes>>

(* ---------------- specifications ---------------- *)
RouteIdle ==
    /\ pc = "idle"
    /\ request = NoBody
    /\ context = <<>>
    /\ sources = <<>>
    /\ prompt = <<>>
    /\ response = NoResponse
    /\ searchOutcome = NoSearch
    /\ llmOutcome = NoLlm
    /\ log = <<>>
    /\ ipc = "idle"
    /\ ingestOutcome = NoIngest
    /\ iresponse = NoIngestResponse
    /\ lastIngest = NoIngestResponse

PageMounted ==
    /\ messages = <<>>
    /\ input = <<>>
    /\ isLoading = FALSE
    /\ isIngesting = FALSE
    /\ ingestStatus = NoStatus
    /\ statusBy = 0
    /\ chatFetch = NoFetch
    /\ ingestFetch = 0
    /\ timers = <<>>
    /\ refreshes = 0

Init ==
    /\ GEMINI_API_KEY \in BOOLEAN
    /\ RouteIdle
    /\ PageMounted

Next ==
    \/ \E body \in Bodies : ChatReceive(body)
    \/ \E o \in SearchOutcomes : SearchSettle(o)
    \/ \E o \in LlmOutcomes : LlmSettle(o)
    \/ ChatReturn
    \/ IngestReceive
    \/ \E o \in IngestOutcomes : IngestSettle(o)
    \/ IngestReturn

Spec == Init /\ [][Next]_vars

PageInit ==
    /\ GEMINI_API_KEY = TRUE
    /\ RouteIdle
    /\ PageMounted

ChatSettles == (\E data \in ChatData : ChatResponse(data)) \/ ChatFetchFail

PageNext ==
    \/ \E v \in Inputs : onChange(v)
    \/ handleSubmit
    \/ \E data \in ChatData : ChatResponse(data)
    \/ ChatFetchFail
    \/ handleRefreshKnowledgeBase
    \/ \E data \in IngestData : IngestResponse(data)
    \/ IngestFetchFail
    \/ TimerFire

PageSpec == PageInit /\ [][PageNext]_vars

\* a fetch promise settles
FairPageSpec == PageSpec /\ WF_vars(ChatSettles)

(* ---------------- properties of POST /api/chat ---------------- *)
RetrievalFailed == searchOutcome.kind \in {"unreachable", "status", "malformed"}
Blank(body) == ~body.hasMessage \/ Len(Trim(body.message)) = 0
Count(q, e) == Cardinality({i \in 1..Len(q) : q[i] = e})
IsAnswer(r) == r.status = 200 /\ "answer" \in r.fields /\ "error" \notin r.fields

\* C1: a request whose message is empty or only whitespace issues no retrieval
\* and no LLM call and is answered 400 {error: "Message is required"}, with no
\* answer field.
C1_BlankRejected ==
    (pc # "idle" /\ request.json /\ Blank(request)) =>
        /\ log = <<>>
        /\ pc = "done"
        /\ response = ErrorResponse(400, MessageRequired)
        /\ "answer" \notin response.fields

\* C2: whenever the retrieval failed, the request ends with an Answer, never
\* with an error response, and the Answer has hasContext false and no sources.
C2_AlwaysAnswer ==
    (pc = "done" /\ RetrievalFailed) =>
        /\ IsAnswer(response)
        /\ ~response.hasContext
        /\ "sources" \notin response.fields

\* C2 (amended): whenever the retrieval failed, the request ends exactly as it
\* would with an empty retrieval result: with the configuration error when the
\* credential is missing, with the generic error when the LLM call failed, and
\* otherwise with an Answer that has hasContext false and no sources.
C2_FailedRetrievalAbsorbed ==
    (pc = "done" /\ RetrievalFailed) =>
        IF ~GEMINI_API_KEY THEN response = ErrorResponse(500, KeyNotConfigured)
        ELSE IF llmOutcome.kind = "error" THEN response = ErrorResponse(500, GenericError)
        ELSE /\ IsAnswer(response)
             /\ ~response.hasContext
             /\ "sources" \notin response.fields

C2_Witness ==
    /\ pc = "done"
    /\ searchOutcome.kind = "status"
    /\ Len(searchOutcome.results) > 0
    /\ IsAnswer(response)

\* C3: after a successful retrieval of K passages, an Answer has hasContext
\* true iff K > 0, and hasContext agrees with the presence of sources.
C3_HasContextIffPassages ==
    (pc = "done" /\ searchOutcome.kind = "ok" /\ IsAnswer(response)) =>
        /\ response.hasContext <=> Len(searchOutcome.results) > 0
        /\ response.hasContext <=> "sources" \in response.fields

\* C4: without the credential a request with a non-empty question issues no
\* network call at all and is answered 500 with the configuration message.
C4_FailFast ==
    (pc # "idle" /\ ~GEMINI_API_KEY /\ request.json /\ ~Falsy(request)) =>
        /\ log = <<>>
        /\ pc = "done"
        /\ response = ErrorResponse(500, KeyNotConfigured)
        /\ response.error # GenericError

\* C5: the sources of an Answer, when present, are the source identifiers of
\* the retrieved results, one per result in the same order, duplicates kept;
\* when the retrieval gave no result the field is absent, never an empty list.
C5_SourcesVerbatim ==
    (pc = "done" /\ IsAnswer(response)) =>
        LET got == IF searchOutcome.kind = "ok" THEN searchOutcome.results ELSE <<>>
        IN  /\ "sources" \in response.fields <=> Len(got) > 0
            /\ "sources" \in response.fields => Len(response.sources) > 0
            /\ Len(response.sources) = Len(got)
            /\ \A i \in 1..Len(got) : response.sources[i] = got[i].source

C5_Witness ==
    /\ pc = "done"
    /\ IsAnswer(response)
    /\ response.sources = <<"policy.pdf", "policy.pdf">>

\* C6: an error response has one of three causes: no question (400), no
\* credential (500, configuration message), a failed LLM call (500, generic).
C6_ThreeErrorCauses ==
    (pc = "done" /\ "error" \in response.fields) =>
        \/ request.json /\ Falsy(request) /\ response = ErrorResponse(400, MessageRequired)
        \/ ~GEMINI_API_KEY /\ response = ErrorResponse(500, KeyNotConfigured)
        \/ llmOutcome.kind = "error" /\ response = ErrorResponse(500, GenericError)

\* C6 (amended): an error response has one of four causes: no question (400),
\* no credential (500, configuration message), a failed LLM call (500,
\* generic), or a request body that does not parse (500, generic); a failed
\* retrieval is none of them.
C6_FourErrorCauses ==
    (pc = "done" /\ "error" \in response.fields) =>
        \/ request.json /\ Falsy(request) /\ response = ErrorResponse(400, MessageRequired)
        \/ ~GEMINI_API_KEY /\ response = ErrorResponse(500, KeyNotConfigured)
        \/ llmOutcome.kind = "error" /\ response = ErrorResponse(500, GenericError)
        \/ ~request.json /\ response = ErrorResponse(500, GenericError)

C6_Witness ==
    /\ pc = "done"
    /\ RetrievalFailed
    /\ llmOutcome.kind = "error"
    /\ response = ErrorResponse(500, GenericError)

\* C7: one request issues at most one retrieval call and at most one LLM call,
\* the LLM call only after the retrieval call settled, and a failed LLM call
\* ends the request with an error response and no further call.
C7_OneCallEach ==
    /\ Count(log, "search") <= 1
    /\ Count(log, "llm") <= 1
    /\ \A i \in 1..Len(log) :
          log[i] = "llm" => \E j \in 1..(i - 1) : log[j] = "searchSettled"
    /\ llmOutcome.kind = "error" =>
          /\ pc = "done"
          /\ "error" \in response.fields
          /\ log = <<"search", "searchSettled", "llm", "llmSettled">>

C7_Witness ==
    /\ pc = "done"
    /\ llmOutcome.kind = "error"
    /\ Count(log, "llm") = 1

(* ---------------- properties of POST /api/ingest ---------------- *)
\* what a request's own inputs make its response
ChatResultOf(body, so, lo, key) ==
    IF ~body.json THEN ErrorResponse(500, GenericError)
    ELSE IF ~body.hasMessage \/ body.message = <<>> THEN ErrorResponse(400, MessageRequired)
    ELSE IF ~key THEN ErrorResponse(500, KeyNotConfigured)
    ELSE IF lo.kind = "error" THEN ErrorResponse(500, GenericError)
    ELSE IF so.kind = "ok"
      THEN AnswerResponse(lo.text, [i \in 1..Len(so.results) |-> so.results[i].source],
                          Join([i \in 1..Len(so.results) |-> so.results[i].text], SEPARATOR))
      ELSE AnswerResponse(lo.text, <<>>, <<>>)

C8_State ==
    /\ (ipc = "done" /\ ingestOutcome.kind = "ok") =>
          iresponse = [status |-> 200, body |-> ingestOutcome.data]
    /\ (ipc = "done" /\ ingestOutcome.kind = "unreachable") =>
          /\ iresponse.status = 503
          /\ iresponse.body.status = "error"
          /\ iresponse.body.message = TunnelDown
    /\ pc = "done" => response = ChatResultOf(request, searchOutcome, llmOutcome, GEMINI_API_KEY)

\* C8: the ingest handler relays a success body unchanged and answers 503
\* {status: "error", message: connectivity text} when the backend cannot be
\* reached; no step of the ingest handler changes the chat handler's state,
\* and a chat response is a function of that request's body, retrieval
\* outcome, LLM outcome and credential alone.
C8_RefreshProxy ==
    /\ []C8_State
    /\ [][ingestVars' # ingestVars => chatVars' = chatVars]_vars

C8_Witness ==
    /\ lastIngest.status = 503
    /\ ipc = "done"
    /\ ingestOutcome.kind = "ok"
    /\ ingestOutcome.data.hasDocs
    /\ pc = "done"
    /\ IsAnswer(response)

(* ---------------- properties of ChatPage ---------------- *)
AssistantTexts ==
    {d.answer : d \in {x \in ChatData : x.error = ""}}
    \cup {<<"Error: ", d.error>> : d \in {x \in ChatData : x.error # ""}}
    \cup {ServerUnreachable}

C9_State ==
    /\ \A i \in 1..Len(messages) :
          /\ messages[i].role = IF i % 2 = 1 THEN "user" ELSE "assistant"
          /\ messages[i].role = "assistant" => messages[i].content \in AssistantTexts
    /\ chatFetch.sent <=> Len(messages) % 2 = 1
    /\ isLoading <=> chatFetch.sent

C9_Step ==
    /\ (chatFetch' # chatFetch /\ chatFetch'.sent) =>
          /\ ~isLoading
          /\ ~chatFetch.sent
          /\ Len(Trim(input)) > 0
          /\ messages' = Append(messages, UserMessage(Trim(input)))
    /\ (chatFetch.sent /\ ~chatFetch'.sent) =>
          /\ Len(messages') = Len(messages) + 1
          /\ SubSeq(messages', 1, Len(messages)) = messages
          /\ messages'[Len(messages')].role = "assistant"
          /\ ~isLoading'
    /\ messages' # messages => chatFetch' # chatFetch

\* C9: a chat request is sent only when none is in flight and the trimmed
\* input is non-empty; each request appends one user message when sent and one
\* assistant message when it settles, so the list alternates user/assistant;
\* isLoading is true exactly while a request is in flight and returns to false.
C9_ChatAlternates ==
    /\ []C9_State
    /\ [][C9_Step]_vars
    /\ (isLoading ~> ~isLoading)

C9_Witness ==
    /\ Len(messages) = 4
    /\ messages[2].content = ServerUnreachable
    /\ messages[3].content = <<"q">>
    /\ messages[4].sources = <<"policy.pdf">>
    /\ ~isLoading

\* C10: at most one refresh is in flight, a refresh changes nothing of the
\* chat state, and a displayed status is cleared only by the timer of the
\* refresh that set it or by the start of a new refresh.
C10_OwnTimerOnly ==
    [][/\ (ingestFetch' # ingestFetch /\ ingestFetch' > 0) => (ingestFetch = 0 /\ ~isIngesting)
       /\ pageRefreshVars' # pageRefreshVars => pageChatVars' = pageChatVars
       /\ (ingestStatus.type # "null" /\ ingestStatus'.type = "null") =>
             \/ ~isIngesting /\ isIngesting'
             \/ Len(timers) > 0 /\ Head(timers) = statusBy /\ timers' = Tail(timers)]_vars

====
